---- MODULE Spec2Model ----
(***************************************************************************)
(* A model of the ShieldAI detection backend: the span-conflict resolution *)
(* and masking of ShieldAIEngine, the dictionary store and its matcher,    *)
(* the conditionally invoked LLM (context) detector and the engine's       *)
(* detect pipeline.                                                        *)
(*                                                                         *)
(* Strings are sequences of one-character strings; offsets are 0-based and *)
(* half-open as in Python.  Scores are percentages (0.95 is 95).  The      *)
(* Japanese display labels are written as romanised tokens.                *)
(***************************************************************************)
EXTENDS Integers, Sequences, FiniteSets, TLC

\* ------------------------------------------------------------------ bounds

\* Longest text of the resolve/mask specification.
MaxLen == 3
\* Longest candidate list of the resolve/mask specification.
MaxDets == 2
\* Longest text of the pipeline specifications.
MaxTextLen == 3
\* Most entries the dictionary holds in the pipeline specifications.
MaxEntries == 2
\* The engine's min_text_length_for_llm (default 50), scaled to MaxTextLen.
MinTextLen == 2

\* ------------------------------------------------------------ the program

\* DictionaryDetection.score and the score DictionaryDetector.detect sets.
DictScore == 95
\* The score LLMDetector.detect sets.
LLMScore == 75

\* The characters texts are made of.
Chars == {"a", "b"}

\* ENTITY_LABELS: entity type -> display label.
ENTITY_LABELS ==
  [t \in {"PERSON", "ORGANIZATION", "EMAIL_ADDRESS", "PHONE_NUMBER",
          "JP_PHONE_NUMBER", "CREDIT_CARD", "JP_POSTAL_CODE", "JP_ADDRESS",
          "JP_MY_NUMBER", "JP_CURRENCY", "JP_COMPANY", "JP_PERSON_NAME",
          "API_KEY", "IP_ADDRESS", "URL", "PROJECT_NAME", "CONFIDENTIAL",
          "DICT_COMPANIES", "DICT_PROJECTS", "DICT_PERSONS", "DICT_CUSTOM"} |->
     CASE t \in {"PERSON", "JP_PERSON_NAME", "DICT_PERSONS"} -> "kojinmei"
       [] t \in {"ORGANIZATION", "JP_COMPANY", "DICT_COMPANIES"} -> "kaishamei"
       [] t = "EMAIL_ADDRESS" -> "mail-address"
       [] t \in {"PHONE_NUMBER", "JP_PHONE_NUMBER"} -> "denwabangou"
       [] t = "CREDIT_CARD" -> "credit-card"
       [] t = "JP_POSTAL_CODE" -> "yuubinbangou"
       [] t = "JP_ADDRESS" -> "juusho"
       [] t = "JP_MY_NUMBER" -> "my-number"
       [] t = "JP_CURRENCY" -> "kingaku"
       [] t = "API_KEY" -> "API-key"
       [] t = "IP_ADDRESS" -> "IP-address"
       [] t = "URL" -> "URL"
       [] t \in {"PROJECT_NAME", "DICT_PROJECTS"} -> "project-mei"
       [] t \in {"CONFIDENTIAL", "DICT_CUSTOM"} -> "kimitsujouhou"]

\* ENTITY_LABELS.get(entity_type, "kimitsujouhou")
get_entity_label(entity_type) ==
  IF entity_type \in DOMAIN ENTITY_LABELS THEN ENTITY_LABELS[entity_type]
  ELSE "kimitsujouhou"

\* str.startswith("JP_") on the entity types of the model.
StartsWithJP(entity_type) ==
  entity_type \in {"JP_PHONE_NUMBER", "JP_POSTAL_CODE", "JP_ADDRESS",
                   "JP_MY_NUMBER", "JP_CURRENCY", "JP_COMPANY",
                   "JP_PERSON_NAME"}

\* Python's s[:i]: a negative index counts from the end, and both clamp.
PyIndex(s, i) ==
  IF i < 0 THEN (IF Len(s) + i < 0 THEN 0 ELSE Len(s) + i)
  ELSE (IF i > Len(s) THEN Len(s) ELSE i)

\* Python's s[i:j].
PySlice(s, i, j) == SubSeq(s, PyIndex(s, i) + 1, PyIndex(s, j))

\* Python's s[:j] and s[i:].
PySliceTo(s, j) == SubSeq(s, 1, PyIndex(s, j))
PySliceFrom(s, i) == SubSeq(s, PyIndex(s, i) + 1, Len(s))

\* Detection(entity_type, text, start, end, score, method)
Detection(entity_type, text, start, end, score, method) ==
  [entity_type |-> entity_type, text |-> text, start |-> start, end |-> end,
   score |-> score, method |-> method]

\* The method priority get_priority computes (lower wins).
method_priority(d) ==
  IF d.method = "dictionary" THEN 0
  ELSE IF StartsWithJP(d.entity_type)
          \/ d.entity_type \in {"EMAIL_ADDRESS", "CREDIT_CARD", "API_KEY"} THEN 1
  ELSE IF d.entity_type \in {"PERSON", "ORGANIZATION"} THEN 3
  ELSE 2

\* get_priority without the method priority: length and score alone decide.
get_priority_no_method(d) == <<0, -(d.end - d.start), -d.score>>

\* get_priority with the score compared before the length.
get_priority_score_first(d) ==
  <<method_priority(d), -d.score, -(d.end - d.start)>>

\* get_priority: (method_priority, -(end - start), -score)
get_priority(d) == <<method_priority(d), -(d.end - d.start), -d.score>>

\* A comparison that looks at the first component only.
TupleLessRankOnly(a, b) == a[1] < b[1]

\* Python's tuple comparison a < b on triples.
TupleLess(a, b) ==
  \/ a[1] < b[1]
  \/ a[1] = b[1] /\ a[2] < b[2]
  \/ a[1] = b[1] /\ a[2] = b[2] /\ a[3] < b[3]

\* x put into the sorted list s after every element that is not greater.
InsertByPriority(s, x) ==
  LET after == {i \in 1..Len(s) : ~TupleLess(get_priority(x), get_priority(s[i]))}
      k == Cardinality(after)
  IN SubSeq(s, 1, k) \o <<x>> \o SubSeq(s, k + 1, Len(s))

\* sorted(detections, key=get_priority): a stable sort.
RECURSIVE SortByPriority(_)
SortByPriority(s) ==
  IF s = <<>> THEN <<>>
  ELSE InsertByPriority(SortByPriority(SubSeq(s, 1, Len(s) - 1)), s[Len(s)])

\* An overlap test that sees only a candidate lying inside an accepted one.
OverlapsContainedOnly(det, accepted) ==
  det.start >= accepted.start /\ det.end <= accepted.end

\* The overlap test of _remove_overlapping.
Overlaps(det, accepted) ==
  ~(det.end <= accepted.start \/ det.start >= accepted.end)

\* The acceptance loop of _remove_overlapping over the sorted list.
RECURSIVE Accept(_, _)
Accept(sorted_dets, result) ==
  IF sorted_dets = <<>> THEN result
  ELSE LET det == Head(sorted_dets)
           should_add == \A i \in 1..Len(result) : ~Overlaps(det, result[i])
       IN Accept(Tail(sorted_dets),
                 IF should_add THEN Append(result, det) ELSE result)

\* ShieldAIEngine._remove_overlapping
remove_overlapping(dets) ==
  IF dets = <<>> THEN <<>> ELSE Accept(SortByPriority(dets), <<>>)

\* The insertion of a sort by start ascending (reverse=True forgotten).
InsertByStartAsc(s, x) ==
  LET k == Cardinality({i \in 1..Len(s) : s[i].start <= x.start})
  IN SubSeq(s, 1, k) \o <<x>> \o SubSeq(s, k + 1, Len(s))

\* x put into the list s, sorted by start descending, after every element
\* whose start is not smaller (reverse=True keeps the order of equal keys).
InsertByStartDesc(s, x) ==
  LET k == Cardinality({i \in 1..Len(s) : s[i].start >= x.start})
  IN SubSeq(s, 1, k) \o <<x>> \o SubSeq(s, k + 1, Len(s))

\* sorted(filtered, key=lambda d: d.start, reverse=True)
RECURSIVE SortByStartDesc(_)
SortByStartDesc(s) ==
  IF s = <<>> THEN <<>>
  ELSE InsertByStartDesc(SortByStartDesc(SubSeq(s, 1, Len(s) - 1)), s[Len(s)])

\* f"[{label}]"
Bracket(label) == <<"[", label, "]">>

\* One replacement of _mask_text's loop.
Splice(result, detection) ==
  PySliceTo(result, detection.start)
    \o Bracket(get_entity_label(detection.entity_type))
    \o PySliceFrom(result, detection.end)

\* The replacement loop of _mask_text.
RECURSIVE SpliceAll(_, _)
SpliceAll(result, sorted_detections) ==
  IF sorted_detections = <<>> THEN result
  ELSE SpliceAll(Splice(result, Head(sorted_detections)), Tail(sorted_detections))

\* ShieldAIEngine._mask_text
mask_text(txt, dets) ==
  IF dets = <<>> THEN txt
  ELSE SpliceAll(txt, SortByStartDesc(remove_overlapping(dets)))

\* ------------------------------------------------------- dictionary store

\* DictionaryEntry(value, label, category)
DictionaryEntry(value, label, category) ==
  [value |-> value, label |-> label, category |-> category]

\* Whether Dictionary.add_entry finds the value among the entries.
HasValue(ents, value) == \E i \in 1..Len(ents) : ents[i].value = value

\* An add_entry without the check for duplicates.
Dictionary_add_entry_unchecked(ents, value, label, category) ==
  Append(ents, DictionaryEntry(value, label, category))

\* Dictionary.add_entry: the entries afterwards.
Dictionary_add_entry(ents, value, label, category) ==
  IF HasValue(ents, value) THEN ents
  ELSE Append(ents, DictionaryEntry(value, label, category))

\* What Dictionary.add_entry returns: False for a value already present.
add_entry_result(ents, value) == ~HasValue(ents, value)

\* What Dictionary.remove_entry returns: whether an entry was popped.
remove_entry_result(ents, value) == HasValue(ents, value)

\* Dictionary.remove_entry: the first entry with the value is popped.
Dictionary_remove_entry(ents, value) ==
  IF ~HasValue(ents, value) THEN ents
  ELSE LET i == CHOOSE k \in 1..Len(ents) :
                  /\ ents[k].value = value
                  /\ \A j \in 1..(k - 1) : ents[j].value # value
       IN SubSeq(ents, 1, i - 1) \o SubSeq(ents, i + 1, Len(ents))

\* The keys of to_dict's grouped, in insertion order.
GroupKeys == <<"companies", "projects", "persons", "custom">>

\* The group to_dict files an entry under.
GroupOf(category) ==
  IF \E k \in 1..Len(GroupKeys) : GroupKeys[k] = category THEN category
  ELSE "custom"

\* Dictionary.to_dict: group -> list of {"value", "label"}.
to_dict(ents) ==
  [g \in {GroupKeys[k] : k \in 1..Len(GroupKeys)} |->
     LET InGroup(e) == GroupOf(e.category) = g
         picked == SelectSeq(ents, InGroup)
     IN [i \in 1..Len(picked) |->
           [value |-> picked[i].value, label |-> picked[i].label]]]

\* Dictionary.from_dict: the groups in order, each item with its group as category.
RECURSIVE FromGroups(_, _)
FromGroups(data, k) ==
  IF k > Len(GroupKeys) THEN <<>>
  ELSE [i \in 1..Len(data[GroupKeys[k]]) |->
          DictionaryEntry(data[GroupKeys[k]][i].value,
                          data[GroupKeys[k]][i].label, GroupKeys[k])]
       \o FromGroups(data, k + 1)

from_dict(data) == FromGroups(data, 1)

\* DictionaryManager._load_dictionary: an empty Dictionary without a file.
load_dictionary(f) == IF ~f.exists THEN <<>> ELSE from_dict(f.data)

\* custom.json before anything was saved, and after save_dictionary.
NoFile == [exists |-> FALSE, data |-> to_dict(<<>>)]
Saved(ents) == [exists |-> TRUE, data |-> to_dict(ents)]

\* str.strip() on a sequence of characters.
RECURSIVE LStrip(_)
LStrip(s) == IF s # <<>> /\ Head(s) = " " THEN LStrip(Tail(s)) ELSE s
RECURSIVE RStrip(_)
RStrip(s) ==
  IF s # <<>> /\ s[Len(s)] = " " THEN RStrip(SubSeq(s, 1, Len(s) - 1)) ELSE s
Strip(s) == RStrip(LStrip(s))

\* import_csv's category_map.get(category_ja, "custom")
category_map(category_ja) ==
  CASE category_ja \in {"kaishamei", "kaisha", "kigyou"} -> "companies"
    [] category_ja \in {"project", "anken"} -> "projects"
    [] category_ja \in {"kojinmei", "jinmei"} -> "persons"
    [] OTHER -> "custom"

\* One row of import_csv's loop: the entries afterwards.  A row is the list
\* of its fields; row[1] is the category name, a token.
import_row(ents, row) ==
  IF Len(row) < 2 THEN ents
  ELSE LET category_ja == row[1]
           value == Strip(row[2])
           label == IF Len(row) > 2 THEN Strip(row[3]) ELSE category_ja
       IN IF value # <<>>
          THEN Dictionary_add_entry(ents, value, label, category_map(category_ja))
          ELSE ents

\* The loop of import_csv over the rows after the header.
RECURSIVE import_rows(_, _)
import_rows(ents, rows) ==
  IF rows = <<>> THEN ents
  ELSE import_rows(import_row(ents, Head(rows)), Tail(rows))

\* ----------------------------------------------------- dictionary matcher

\* f"DICT_{entry.category.upper()}"
DictType(category) ==
  CASE category = "companies" -> "DICT_COMPANIES"
    [] category = "projects" -> "DICT_PROJECTS"
    [] category = "persons" -> "DICT_PERSONS"
    [] category = "custom" -> "DICT_CUSTOM"
    [] category = "secret" -> "DICT_SECRET"

\* Whether value occurs in txt at offset i.
OccursAt(value, txt, i) ==
  /\ i >= 0
  /\ i + Len(value) <= Len(txt)
  /\ SubSeq(txt, i + 1, i + Len(value)) = value

\* A scan that resumes one character after the start of a match.
NextScanOverlapping(value, pos) == pos + 1

\* The next offset re.finditer looks at after a match at pos.
NextScan(value, pos) == pos + Len(value)

\* re.finditer(re.escape(value), txt): the starts of the matches from pos on.
\* The empty pattern matches at every offset, the end included.
RECURSIVE FindIter(_, _, _)
FindIter(value, txt, pos) ==
  IF value = <<>> THEN [i \in 1..(Len(txt) + 1 - pos) |-> pos + i - 1]
  ELSE IF pos + Len(value) > Len(txt) THEN <<>>
  ELSE IF OccursAt(value, txt, pos)
       THEN <<pos>> \o FindIter(value, txt, NextScan(value, pos))
       ELSE FindIter(value, txt, pos + 1)

\* The DictionaryDetection records DictionaryDetector.detect appends for one entry.
EntryDetections(entry, txt) ==
  LET starts == FindIter(entry.value, txt, 0)
  IN [i \in 1..Len(starts) |->
        [entity_type |-> DictType(entry.category),
         text |-> entry.value,
         start |-> starts[i],
         end |-> starts[i] + Len(entry.value),
         score |-> DictScore,
         label |-> entry.label]]

\* DictionaryDetector.detect over a term list that does not change meanwhile.
RECURSIVE DictDetect(_, _)
DictDetect(ents, txt) ==
  IF ents = <<>> THEN <<>>
  ELSE EntryDetections(Head(ents), txt) \o DictDetect(Tail(ents), txt)

\* The Detection engine.detect makes of a dictionary or LLM result.
AsDetection(r, method) ==
  Detection(r.entity_type, r.text, r.start, r.end, r.score, method)

AsDetections(rs, method) == [i \in 1..Len(rs) |-> AsDetection(rs[i], method)]

\* ------------------------------------------------------------ LLM detector

\* LLMDetector._map_type
map_type(japanese_type) ==
  CASE japanese_type = "kojinmei" -> "PERSON"
    [] japanese_type \in {"kaishamei", "kigyoumei"} -> "ORGANIZATION"
    [] japanese_type = "project-mei" -> "PROJECT_NAME"
    [] japanese_type = "kimitsujouhou" -> "CONFIDENTIAL"
    [] OTHER -> "CONFIDENTIAL"

\* str.find: the first offset value occurs at, or -1.
Find(txt, value) ==
  IF \E i \in 0..Len(txt) : OccursAt(value, txt, i)
  THEN CHOOSE i \in 0..Len(txt) :
         /\ OccursAt(value, txt, i)
         /\ \A j \in 0..(i - 1) : ~OccursAt(value, txt, j)
  ELSE -1

\* The outcome of a block of code: the value it returns, or raised.
Returned(v) == [raised |-> FALSE, value |-> v]
Raised == [raised |-> TRUE, value |-> <<>>]

\* A block without its except clause: what the body raises goes on.
TryExceptMissing(body, handler_value) == body

\* try: body / except Exception: return handler_value
TryExcept(body, handler_value) ==
  IF body.raised THEN Returned(handler_value) ELSE body

\* LLMDetector.is_available.  env says what the Ollama side does; "no_ollama"
\* is OLLAMA_AVAILABLE being False, otherwise client.list() raises or not.
is_available(env) ==
  IF env = "no_ollama" THEN Returned(FALSE)
  ELSE TryExcept(IF env = "list_raises" THEN Raised ELSE Returned(TRUE), FALSE)

\* The loop of LLMDetector.detect over result["detected"].  An item of kind
\* "pair" is a dict with a type and a value; any other item makes item.get raise.
RECURSIVE LLMItems(_, _, _)
LLMItems(txt, items, acc) ==
  IF items = <<>> THEN Returned(acc)
  ELSE LET item == Head(items)
       IN IF item.kind # "pair" THEN Raised
          ELSE IF item.value = <<>> THEN LLMItems(txt, Tail(items), acc)
          ELSE LET start == Find(txt, item.value)
               IN IF start = -1 THEN LLMItems(txt, Tail(items), acc)
                  ELSE LLMItems(txt, Tail(items),
                         Append(acc, [entity_type |-> map_type(item.type),
                                      text |-> item.value,
                                      start |-> start,
                                      end |-> start + Len(item.value),
                                      score |-> LLMScore]))

\* The body of LLMDetector.detect's try block.
LLMBody(txt, env, items) ==
  IF env \in {"chat_raises", "bad_json", "bad_shape"} THEN Raised
  ELSE LLMItems(txt, items, <<>>)

\* LLMDetector.detect
LLMDetect(txt, env, items) ==
  LET avail == is_available(env)
  IN IF avail.raised THEN Raised
     ELSE IF ~avail.value THEN Returned(<<>>)
     ELSE TryExcept(LLMBody(txt, env, items), <<>>)

\* ------------------------------------------------------------------ state

VARIABLES
  entries,      \* Dictionary.entries of the engine's DictionaryManager
  file,         \* dictionaries/custom.json: whether it exists, and what to_dict wrote
  use_llm,      \* engine.use_llm (llm_detector is set exactly when it is TRUE)
  pc,           \* where the detect call is
  text,         \* the text of the detect call
  detections,   \* engine.detect's detections list
  dict_results, \* DictionaryDetector.detect's detections list
  di,           \* how many entries DictionaryDetector.detect's loop has taken
  snaps,        \* the term lists that existed while the matcher ran
  llm_calls,    \* how often the call invoked llm_detector.detect
  llm_env,      \* what the Ollama side did in the call (NotAsked if not asked)
  filtered,     \* the list _remove_overlapping returned
  result,       \* the DetectionResult, NoResult before, Failed on an exception
  request,      \* the DetectRequest being served (NoRequest if none)
  response      \* what the last dictionary call returned (NoResponse if none)

vars == <<entries, file, use_llm, pc, text, detections, dict_results, di,
          snaps, llm_calls, llm_env, filtered, result, request, response>>

NoResult == [kind |-> "none"]
NotAsked == [env |-> "unused", items |-> <<>>]
Failed == [kind |-> "raised"]
NoRequest == [kind |-> "none"]
NoResponse == [op |-> "none"]

\* DetectRequest(text, use_llm): the field the handler reads besides the text.
DetectRequest(request_use_llm) == [kind |-> "detect", use_llm |-> request_use_llm]

\* DetectionResult(original_text, masked_text, detections)
DetectionResult(original_text, masked_text, dets) ==
  [kind |-> "result", original_text |-> original_text,
   masked_text |-> masked_text, detections |-> dets]

\* All sequences over S of length at most n.
RECURSIVE SeqsUpTo(_, _)
SeqsUpTo(S, n) ==
  IF n = 0 THEN {<<>>}
  ELSE LET shorter == SeqsUpTo(S, n - 1)
       IN shorter \cup {Append(q, x) : q \in {r \in shorter : Len(r) = n - 1}, x \in S}

\* The offsets 0 <= start < end <= n.
Spans(n) == {sp \in (0..n) \X (0..n) : sp[1] < sp[2]}

\* --------------------------------------------- resolve/mask specification

\* The (method, entity type, score) of the candidates the engine collects:
\* dictionary hits, and pattern hits of each priority class.
CandidateKinds ==
  {<<"dictionary", "DICT_COMPANIES", DictScore>>}
    \cup ({"regex"} \X {"PERSON", "JP_PHONE_NUMBER"} \X {60, 100})
    \cup {<<"regex", "URL", 60>>}

Candidates(txt) ==
  {Detection(k[2], PySlice(txt, sp[1], sp[2]), sp[1], sp[2], k[3], k[1]) :
     k \in CandidateKinds, sp \in Spans(Len(txt))}

\* The text of n pairwise different characters.  _remove_overlapping and
\* _mask_text never read a character, so one text per length stands for all.
Letters == <<"a", "b", "c", "d", "e", "f">>
DistinctText(n) == SubSeq(Letters, 1, n)

InitResolve ==
  /\ text \in {DistinctText(n) : n \in 0..MaxLen}
  /\ detections \in SeqsUpTo(Candidates(text), MaxDets)
  /\ pc = "input"
  /\ filtered = <<>>
  /\ result = NoResult
  /\ request = NoRequest
  /\ response = NoResponse
  /\ entries = <<>>
  /\ file = NoFile
  /\ use_llm = FALSE
  /\ dict_results = <<>>
  /\ di = 0
  /\ snaps = {}
  /\ llm_calls = 0
  /\ llm_env = NotAsked

\* _mask_text's call of _remove_overlapping.
Resolve ==
  /\ pc = "input"
  /\ filtered' = remove_overlapping(detections)
  /\ pc' = "resolved"
  /\ UNCHANGED <<entries, file, use_llm, text, detections, dict_results, di,
                 snaps, llm_calls, llm_env, result, request, response>>

\* The rest of _mask_text, and the DetectionResult detect builds.
MaskResolved ==
  /\ pc = "resolved"
  /\ result' = DetectionResult(text, mask_text(text, detections), detections)
  /\ pc' = "masked"
  /\ UNCHANGED <<entries, file, use_llm, text, detections, dict_results, di,
                 snaps, llm_calls, llm_env, filtered, request, response>>

NextResolve == Resolve \/ MaskResolved

SpecResolve == InitResolve /\ [][NextResolve]_vars

\* ------------------------------------------------- pipeline specifications

\* Longest "detected" list of an LLM reply.
MaxItems == 1
\* Most changes of the dictionary while one matcher loop runs (SpecThreads).
MaxChanges == 1

\* The values /dictionary/add and DELETE /dictionary/{value} are called with.
\* add_entry takes any string, the empty one included.
Values == {<<>>, <<"a">>, <<"a", "a">>}

\* The categories /dictionary/add is called with: a known and an unknown one.
Categories == {"companies", "secret"}

\* The rows import_csv reads after the header: one too short, one with a
\* value to strip, one of an unknown category, one whose value strips to "".
CsvRows ==
  {<<"kaishamei">>, <<"kaishamei", <<" ", "a">>>>,
   <<"sonota", <<"a", "a">>>>, <<"sonota", <<" ">>>>}

\* What the Ollama side does when asked: client.list() raises, client.chat()
\* raises, the reply is no JSON, the JSON is no dict, or all is well.  A
\* process without the ollama package is none of them: the annotation
\* Optional[Client] of the client property then fails when the module is
\* imported, so no engine exists.
LLMEnvs == {"list_raises", "chat_raises", "bad_json", "bad_shape", "ok"}

\* The items of a reply's "detected" list: pairs of a type and a value (a
\* missing value reads as ""), or something that is no dict.
LLMItemSet ==
  [kind : {"pair"}, type : {"kojinmei", "zzz"},
   value : {<<>>, <<"b">>, <<"a", "b">>}]
    \cup {[kind |-> "bad", type |-> "zzz", value |-> <<>>]}

\* What analyzer.analyze returns for the text: nothing, or one PERSON span
\* at the start of the text.
PresidioResults(txt) ==
  {<<>>} \cup {<<[entity_type |-> "PERSON", start |-> 0, end |-> n,
                  score |-> 85]>> : n \in 1..Len(txt)}

\* Stage 1 of engine.detect: a Detection per analyzer result.
Stage1(txt, presidio_results) ==
  [i \in 1..Len(presidio_results) |->
     Detection(presidio_results[i].entity_type,
               PySlice(txt, presidio_results[i].start, presidio_results[i].end),
               presidio_results[i].start, presidio_results[i].end,
               presidio_results[i].score, "regex")]

\* A condition of stage 3 that ignores what the earlier stages found.
LLMEligibleAlways(engine_use_llm, dets, txt) ==
  engine_use_llm /\ Len(txt) >= MinTextLen

\* The condition of stage 3 of engine.detect.
LLMEligible(engine_use_llm, dets, txt) ==
  engine_use_llm /\ Len(dets) = 0 /\ Len(txt) >= MinTextLen

Init ==
  /\ entries = <<>>
  /\ file = NoFile
  /\ use_llm = FALSE
  /\ pc = "idle"
  /\ text = <<>>
  /\ detections = <<>>
  /\ dict_results = <<>>
  /\ di = 0
  /\ snaps = {}
  /\ llm_calls = 0
  /\ llm_env = NotAsked
  /\ filtered = <<>>
  /\ result = NoResult
  /\ request = NoRequest
  /\ response = NoResponse

\* The term lists seen while the matcher runs, after a change of the entries.
SnapsAfter(ents) == IF pc = "dict" THEN snaps \cup {ents} ELSE snaps

\* DictionaryManager.add_entry (POST /dictionary/add)
AddEntry(value, label, category) ==
  /\ HasValue(entries, value) \/ Len(entries) < MaxEntries
  /\ entries' = Dictionary_add_entry(entries, value, label, category)
  /\ file' = IF add_entry_result(entries, value) THEN Saved(entries') ELSE file
  /\ response' = [op |-> "add", ok |-> add_entry_result(entries, value)]
  /\ snaps' = SnapsAfter(entries')
  /\ UNCHANGED <<use_llm, pc, text, detections, dict_results, di, llm_calls,
                 llm_env, filtered, result, request>>

\* DictionaryManager.remove_entry (DELETE /dictionary/{value})
RemoveEntry(value) ==
  /\ entries' = Dictionary_remove_entry(entries, value)
  /\ file' = IF remove_entry_result(entries, value) THEN Saved(entries')
              ELSE file
  /\ response' = [op |-> "remove", ok |-> remove_entry_result(entries, value)]
  /\ snaps' = SnapsAfter(entries')
  /\ UNCHANGED <<use_llm, pc, text, detections, dict_results, di, llm_calls,
                 llm_env, filtered, result, request>>

\* DictionaryManager.import_csv (POST /dictionary/import): rows holds the
\* header and the rows after it.
ImportCsv(rows) ==
  /\ rows # <<>>
  /\ Len(import_rows(entries, Tail(rows))) <= MaxEntries
  /\ entries' = import_rows(entries, Tail(rows))
  /\ file' = IF Len(entries') > Len(entries) THEN Saved(entries') ELSE file
  /\ response' = [op |-> "import", imported |-> Len(entries') - Len(entries)]
  /\ snaps' = SnapsAfter(entries')
  /\ UNCHANGED <<use_llm, pc, text, detections, dict_results, di, llm_calls,
                 llm_env, filtered, result, request>>

\* POST /config: a new engine, whose DictionaryManager loads the file.
Configure(request_use_llm) ==
  /\ pc = "idle"
  /\ response = NoResponse
  /\ use_llm' = request_use_llm
  /\ entries' = load_dictionary(file)
  /\ UNCHANGED <<file, pc, text, detections, dict_results, di, snaps,
                 llm_calls, llm_env, filtered, result, request, response>>

\* POST /detect up to the matcher's loop: the engine is made anew when the
\* request asks for the LLM and the engine has none; then stage 1.
DetectStart(txt, request_use_llm, presidio_results) ==
  /\ pc = "idle"
  /\ response = NoResponse
  /\ use_llm' = (use_llm \/ request_use_llm)
  /\ entries' = IF request_use_llm /\ ~use_llm THEN load_dictionary(file)
                ELSE entries
  /\ text' = txt
  /\ detections' = Stage1(txt, presidio_results)
  /\ dict_results' = <<>>
  /\ di' = 0
  /\ snaps' = {entries'}
  /\ pc' = "dict"
  /\ request' = DetectRequest(request_use_llm)
  /\ UNCHANGED <<file, llm_calls, llm_env, filtered, result, response>>

\* One round of DictionaryDetector.detect's loop over the live entries list.
DictNext ==
  /\ pc = "dict"
  /\ di < Len(entries)
  /\ dict_results' = dict_results \o EntryDetections(entries[di + 1], text)
  /\ di' = di + 1
  /\ UNCHANGED <<entries, file, use_llm, pc, text, detections, snaps,
                 llm_calls, llm_env, filtered, result, request, response>>

\* The loop ends; stage 2 of engine.detect appends what the matcher returned.
DictDone ==
  /\ pc = "dict"
  /\ di >= Len(entries)
  /\ detections' = detections \o AsDetections(dict_results, "dictionary")
  /\ pc' = "llm"
  /\ UNCHANGED <<entries, file, use_llm, text, dict_results, di, snaps,
                 llm_calls, llm_env, filtered, result, request, response>>

\* Stage 3 of engine.detect when its condition holds.
LLMCall(env, items) ==
  /\ pc = "llm"
  /\ LLMEligible(use_llm, detections, text)
  /\ env # "ok" => items = <<>>
  /\ llm_calls' = llm_calls + 1
  /\ llm_env' = [env |-> env, items |-> items]
  /\ LET r == LLMDetect(text, env, items)
     IN IF r.raised
        THEN /\ result' = Failed
             /\ pc' = "done"
             /\ UNCHANGED detections
        ELSE /\ detections' = detections \o AsDetections(r.value, "llm")
             /\ pc' = "mask"
             /\ UNCHANGED result
  /\ UNCHANGED <<entries, file, use_llm, text, dict_results, di, snaps,
                 filtered, request, response>>

\* Stage 3 of engine.detect when its condition fails.
LLMSkip ==
  /\ pc = "llm"
  /\ ~LLMEligible(use_llm, detections, text)
  /\ pc' = "mask"
  /\ UNCHANGED <<entries, file, use_llm, text, detections, dict_results, di,
                 snaps, llm_calls, llm_env, filtered, result, request,
                 response>>

\* _mask_text and the DetectionResult.
Mask ==
  /\ pc = "mask"
  /\ filtered' = remove_overlapping(detections)
  /\ result' = DetectionResult(text, mask_text(text, detections), detections)
  /\ pc' = "done"
  /\ UNCHANGED <<entries, file, use_llm, text, detections, dict_results, di,
                 snaps, llm_calls, llm_env, request, response>>

\* The response is sent; the call's locals are gone.
Return ==
  /\ pc = "done"
  /\ pc' = "idle"
  /\ text' = <<>>
  /\ detections' = <<>>
  /\ dict_results' = <<>>
  /\ di' = 0
  /\ snaps' = {}
  /\ llm_calls' = 0
  /\ llm_env' = NotAsked
  /\ filtered' = <<>>
  /\ result' = NoResult
  /\ request' = NoRequest
  /\ UNCHANGED <<entries, file, use_llm, response>>

\* The steps of a /detect request.
DetectSteps ==
  \/ \E txt \in SeqsUpTo(Chars, MaxTextLen), u \in BOOLEAN :
       \E pr \in PresidioResults(txt) : DetectStart(txt, u, pr)
  \/ DictNext
  \/ DictDone
  \/ \E env \in LLMEnvs, items \in SeqsUpTo(LLMItemSet, MaxItems) : LLMCall(env, items)
  \/ LLMSkip
  \/ Mask
  \/ Return

\* A request to the dictionary API, taken once the response of the one
\* before it has been sent.
DictionaryRequest ==
  /\ response = NoResponse
  /\ \/ \E v \in Values, c \in Categories : AddEntry(v, "kimitsujouhou", c)
     \/ \E v \in Values : RemoveEntry(v)
     \/ \E rows \in SeqsUpTo(CsvRows, 2) :
          ImportCsv(<<<<"shubetsu", <<"atai">>>>>> \o rows)

\* The dictionary handler returns and its response is sent.
Respond ==
  /\ response # NoResponse
  /\ response' = NoResponse
  /\ UNCHANGED <<entries, file, use_llm, pc, text, detections, dict_results,
                 di, snaps, llm_calls, llm_env, filtered, result, request>>

\* The server: its handlers are coroutines that never await, so the event
\* loop runs each request to its end before the next.
ServerDictionaryRequest == pc = "idle" /\ DictionaryRequest

Next ==
  \/ ServerDictionaryRequest
  \/ Respond
  \/ \E u \in BOOLEAN : Configure(u)
  \/ DetectSteps

Spec == Init /\ [][Next]_vars

\* The server when no /config request arrives: the engine is the one made at
\* startup, or the one a /detect request made.
NextDetect ==
  \/ ServerDictionaryRequest
  \/ Respond
  \/ DetectSteps

SpecDetect == Init /\ [][NextDetect]_vars

\* The engine driven from threads: the dictionary changes while the matcher
\* of a detect call iterates over it.
ThreadDictionaryRequest ==
  /\ pc = "idle" \/ (pc = "dict" /\ Cardinality(snaps) <= MaxChanges)
  /\ DictionaryRequest

\* A detect call of the engine as the server starts it (use_llm=False), on a
\* text the analyzer finds nothing in.
ThreadDetectStart ==
  \E txt \in SeqsUpTo(Chars, MaxTextLen) : DetectStart(txt, FALSE, <<>>)

NextThreads ==
  \/ ThreadDictionaryRequest
  \/ Respond
  \/ ThreadDetectStart
  \/ DictNext
  \/ DictDone
  \/ LLMSkip
  \/ Mask
  \/ Return

SpecThreads == Init /\ [][NextThreads]_vars

\* ------------------------------------------------ claims on resolve and mask

\* Whether the candidate d is in the list s.
InList(d, s) == \E i \in 1..Len(s) : s[i] = d

\* Whether _remove_overlapping has returned.
Resolved == pc \in {"resolved", "masked"}

\* C1: any two distinct candidates of _remove_overlapping's output have
\* disjoint half-open intervals: a.end <= b.start or a.start >= b.end.
C1_OverlapFree ==
  Resolved =>
    \A i, j \in 1..Len(filtered) :
      i # j => \/ filtered[i].end <= filtered[j].start
               \/ filtered[i].start >= filtered[j].end

\* C1 witness: two candidates that share a character were resolved.
C1_Witness ==
  /\ pc = "resolved"
  /\ Len(detections) = 2
  /\ detections[1].start < detections[2].end
  /\ detections[2].start < detections[1].end
  /\ detections[1].start # detections[2].start
  /\ Len(filtered) = 1

\* d's interval covers p's.
Covers(d, p) == d.start <= p.start /\ p.end <= d.end

\* The two intervals share a character.
Intersect(a, b) == a.start < b.end /\ b.start < a.end

RECURSIVE ReplacedFrom(_, _, _)
ReplacedFrom(txt, accepted, i) ==
  IF i >= Len(txt) THEN <<>>
  ELSE IF \E n \in 1..Len(accepted) : accepted[n].start = i
  THEN LET n == CHOOSE m \in 1..Len(accepted) : accepted[m].start = i
       IN <<"[", get_entity_label(accepted[n].entity_type), "]">>
            \o ReplacedFrom(txt, accepted, accepted[n].end)
  ELSE <<txt[i + 1]>> \o ReplacedFrom(txt, accepted, i + 1)

\* C4: the masked text is the text with each accepted span replaced by its
\* bracketed label, every other character kept unchanged and in order.
C4_PositionStableMasking ==
  pc = "masked" => result.masked_text = ReplacedFrom(text, filtered, 0)

\* C4 witness: two accepted spans, at the start and at the end of the text,
\* with a kept character between them.
C4_Witness ==
  /\ pc = "masked"
  /\ Len(text) = 3
  /\ Len(filtered) = 2
  /\ \E n, m \in 1..2 :
       /\ filtered[n].start = 0 /\ filtered[n].end = 1
       /\ filtered[m].start = 2 /\ filtered[m].end = 3
       /\ filtered[n].entity_type = "PERSON"
       /\ filtered[m].entity_type = "URL"
  /\ result.masked_text = <<"[", "kojinmei", "]", text[2], "[", "URL", "]">>

\* ------------------------------------------------- claims on the pipeline

\* Whether stage 3 of the detect call is over.
AfterLLMStage == pc \in {"mask", "done"}

\* C5: the context (LLM) detector is invoked only if the engine is configured
\* with use_llm, the pattern and dictionary stages produced no candidate and
\* the text is at least min_text_length_for_llm long; a call that collected a
\* pattern or dictionary candidate invokes it zero times.
C5_ContextGating ==
  AfterLLMStage =>
    /\ llm_calls <= 1
    /\ llm_calls > 0 =>
         /\ use_llm
         /\ Len(text) >= MinTextLen
         /\ \A i \in 1..Len(detections) : detections[i].method = "llm"
    /\ (\E i \in 1..Len(detections) : detections[i].method \in {"regex", "dictionary"})
         => llm_calls = 0

\* C5 witness: an engine with use_llm and a long enough text, but a
\* candidate from the earlier stages: the call ended without an LLM call.
C5_Witness ==
  /\ pc = "done"
  /\ use_llm
  /\ Len(text) >= MinTextLen
  /\ detections # <<>>
  /\ llm_calls = 0

\* Whether the context capability failed in the call: the probe said no or
\* raised, the chat call raised, or the reply was unparseable or misshapen.
ContextFailed ==
  /\ llm_calls > 0
  /\ \/ llm_env.env \in {"no_ollama", "list_raises", "chat_raises", "bad_json", "bad_shape"}
     \/ \E i \in 1..Len(llm_env.items) : llm_env.items[i].kind # "pair"

Retained ==
  LET Kept(d) == InList(d, filtered)
  IN SelectSeq(detections, Kept)

\* Whether a candidate's bounds are valid for the text.
ValidBounds(d, txt) == 0 <= d.start /\ d.start < d.end /\ d.end <= Len(txt)

\* C7: the detections of a DetectionResult are exactly the retained
\* candidates, in detection order; a discarded candidate is not among them.
\* Stated for the calls whose candidates all have valid bounds.
C7_OnlyRetainedReported ==
  (/\ pc = "done"
   /\ result.kind = "result"
   /\ \A i \in 1..Len(detections) : ValidBounds(detections[i], text))
    => result.detections = Retained

\* The candidates with valid bounds, in order.
ValidOnly(dets, txt) ==
  LET Valid(d) == ValidBounds(d, txt)
  IN SelectSeq(dets, Valid)

\* C8: a candidate with start >= end, start < 0 or end > len(text) is
\* skipped: the masked text is what it is without that candidate.
C8_InvalidBoundsSkipped ==
  (pc = "done" /\ result.kind = "result") =>
    result.masked_text = mask_text(text, ValidOnly(detections, text))

\* Whether the matcher's loop of the call is over.
MatcherDone == pc \in {"llm", "mask", "done"}

\* The starts of the candidates the matcher returned for a term, in order.
StartsOf(value) ==
  LET OfValue(r) == r.text = value
      rs == SelectSeq(dict_results, OfValue)
  IN [n \in 1..Len(rs) |-> rs[n].start]

\* The offsets the term literally occurs at.
Occurrences(value, txt) ==
  {i \in 0..Len(txt) : i + Len(value) <= Len(txt)
                        /\ SubSeq(txt, i + 1, i + Len(value)) = value}

C10_ConsistentSnapshot ==
  (/\ MatcherDone
   /\ \A ents \in snaps : ~HasValue(ents, <<>>))
    => \E ents \in snaps : dict_results = DictDetect(ents, text)

\* Whether the candidate came from the Dictionary Matcher or the Context
\* Detector Adapter.
FromDictionaryOrContext(d) == d.method \in {"dictionary", "llm"}

\* C11: every candidate detect collects from the Dictionary Matcher and the
\* Context Detector Adapter has 0 <= start < end <= len(text) and
\* matched_text == text[start:end].
C11_SpanCandidateInvariant ==
  pc \in {"dict", "llm", "mask", "done"} =>
    \A i \in 1..Len(detections) :
      FromDictionaryOrContext(detections[i]) =>
        /\ 0 <= detections[i].start
        /\ detections[i].start < detections[i].end
        /\ detections[i].end <= Len(text)
        /\ detections[i].text
             = SubSeq(text, detections[i].start + 1, detections[i].end)

\* C12: for the empty text, whatever the dictionary holds, detect yields no
\* candidate and masked_text == original_text == "".
C12_EmptyTextIsValid ==
  (pc = "done" /\ text = <<>>) =>
    /\ result.kind = "result"
    /\ result.detections = <<>>
    /\ result.original_text = <<>>
    /\ result.masked_text = <<>>

\* C13: the entity type of every candidate of the Dictionary Matcher and of
\* the Context Detector Adapter has its own entry in ENTITY_LABELS.  Stated
\* for the candidates with valid bounds.
C13_LabelTableComplete ==
  pc \in {"llm", "mask", "done"} =>
    \A i \in 1..Len(detections) :
      (FromDictionaryOrContext(detections[i]) /\ ValidBounds(detections[i], text))
        => detections[i].entity_type \in DOMAIN ENTITY_LABELS

\* No two entries of the list have the same value.
UniqueValues(ents) ==
  \A i, j \in 1..Len(ents) : i # j => ents[i].value # ents[j].value

\* C14: no two entries of the dictionary ever have the same value, and an
\* add_entry of a value already present returns False and leaves the entry
\* list (and the file) as it was.
C14_ValueUniqueness ==
  /\ []UniqueValues(entries)
  /\ [][\A v \in Values, c \in Categories :
          (HasValue(entries, v) /\ AddEntry(v, "kimitsujouhou", c))
            => (response' = [op |-> "add", ok |-> FALSE]
                /\ entries' = entries /\ file' = file)]_vars

\* A second add of a value was refused while the store holds two terms.
C14_Witness ==
  /\ response = [op |-> "add", ok |-> FALSE]
  /\ Len(entries) = 2
  /\ entries[1].value # <<>>

\* C15: whether a /detect request is served with the context detector is
\* decided by the request's use_llm field: a request with use_llm = false is
\* served without a call of llm_detector.detect, whatever earlier requests
\* asked for.
C15_PerRequestLLMFlag ==
  (pc \in {"mask", "done"} /\ request.kind = "detect" /\ llm_calls > 0)
    => request.use_llm

\* The list s taken in the order p of its indices.
Permuted(s, p) == [i \in 1..Len(s) |-> s[p[i]]]

\* The candidates of the list s, as a set.
Members(s) == {s[i] : i \in 1..Len(s)}

\* No two different candidates of s that overlap have the same priority tuple.
TieFree(s) ==
  \A i, j \in 1..Len(s) :
    (s[i] # s[j] /\ Intersect(s[i], s[j]))
      => get_priority(s[i]) # get_priority(s[j])

\* C16 as claimed: for every list that is a permutation of the input list,
\* _remove_overlapping accepts the same set of candidates and _mask_text
\* gives the same text.
C16_OrderIndependent ==
  pc = "masked" =>
    \A p \in Permutations(1..Len(detections)) :
      /\ Members(remove_overlapping(Permuted(detections, p))) = Members(filtered)
      /\ mask_text(text, Permuted(detections, p)) = result.masked_text

\* C16, amended: the same, for input lists in which no two different
\* overlapping candidates have the same priority tuple.
C16_OrderIndependentWithoutTies ==
  (pc = "masked" /\ TieFree(detections)) =>
    \A p \in Permutations(1..Len(detections)) :
      /\ Members(remove_overlapping(Permuted(detections, p))) = Members(filtered)
      /\ mask_text(text, Permuted(detections, p)) = result.masked_text

\* Two overlapping candidates with different priority tuples, collected with
\* the losing one first.
C16_Witness ==
  /\ pc = "masked"
  /\ Len(detections) = 2
  /\ detections[1] # detections[2]
  /\ Intersect(detections[1], detections[2])
  /\ TieFree(detections)
  /\ filtered = <<detections[2]>>

\* C17: Dictionary.from_dict(d.to_dict()) has the same set of (value, label,
\* category) entries as d, so a save and reload changes no term's category
\* and hence no tag DICT_<CATEGORY>.  Stated for stores of non-empty values.
C17_PersistenceRoundTrip ==
  (\A i \in 1..Len(entries) : entries[i].value # <<>>) =>
    Members(from_dict(to_dict(entries))) = Members(entries)

====
